---- MODULE Spec2Model ----
(***************************************************************************)
(* The event fan-out broker (package events): EventManager, Subscriber,    *)
(* the slow-consumer eviction task, the once-guarded cleanup and the Join  *)
(* coordinator of Subscribe.  The persistence layer behind the             *)
(* EventPersistence port is not part of the sources; it is modelled from   *)
(* the contract of the specification (section 3): Append assigns the next  *)
(* sequence and records the event, the broadcast callback is invoked once  *)
(* per appended event, after the append, in sequence order, and Playback   *)
(* visits the recorded events above a cursor in sequence order.            *)
(***************************************************************************)
EXTENDS Integers, Sequences, FiniteSets, TLC

\* ------------------------------------------------------------------ bounds
\* Number of Submit (AddEvent) calls.
MaxSubmits == 2
\* Capacity of a subscriber's outgoing queue (the code's default is 32 << 10).
BufferSize == 1
\* Number of calls of the returned cancel function, per subscriber.
MaxCancels == 2
\* Largest cursor a historical Subscribe is called with.
MaxSince == 0
\* Largest cursor of a historical Subscribe that may lie ahead of the log.
MaxCursor == 2
\* Number of Submit calls made beside a single subscriber.
MaxBroadcasts == 3
\* Largest Seq of an event handed to the sequence accessor.
MaxSeq == 20

\* The subscribers that can be created.
Subs == {1, 2}

\* ------------------------------------------------------------- event model
\* XRPCStreamEvent: a struct of nullable variants; kind names the populated one.
AllKinds == {"RepoCommit", "RepoHandle", "RepoMigrate", "RepoTombstone",
             "LabelLabels", "RepoInfo", "LabelInfo", "Error"}
\* The variants the producers of the model submit.
SubmitKinds == {"RepoCommit", "LabelLabels", "RepoInfo"}
\* The variants to which persistence assigns a Seq.
SeqKinds == {"RepoCommit", "RepoHandle", "RepoMigrate", "RepoTombstone", "LabelLabels"}

Evt(k, n) == [kind |-> k, seq |-> n]
\* A nil *XRPCStreamEvent (the value received from a closed channel).
NilEvt == [kind |-> "nil", seq |-> -1]
\* The synthetic frame of the eviction task.
ConsumerTooSlow == [kind |-> "Error", seq |-> -1]

sequenceForEvent(evt) ==
    CASE evt.kind = "nil" -> -1
      [] evt.kind = "RepoCommit" -> evt.seq
      [] evt.kind = "RepoHandle" -> evt.seq
      [] evt.kind = "RepoMigrate" -> evt.seq
      [] evt.kind = "RepoTombstone" -> evt.seq
      [] evt.kind = "RepoInfo" -> -1
      [] evt.kind = "Error" -> -1
      [] OTHER -> -1

\* The filter predicates of the model: nil (accept all) and "commits only".
Filters == {"all", "commits"}
FilterAccepts(f, evt) == IF f = "all" THEN TRUE ELSE evt.kind = "RepoCommit"

\* ------------------------------------------------------------------- state
VARIABLES
    log,            \* persistence: the recorded sequenced events, in Seq order
    nextSeq,        \* persistence: the next Seq to assign
    pending,        \* persistence: appended events whose broadcast callback is still to run
    shutdown,       \* persistence: Shutdown has returned
    batched,        \* persistence: some event was left to the flush task
    submits,        \* number of AddEvent calls made
    lastSubmit,     \* the last AddEvent call: was it persisted, its return value, was it made after Shutdown
    subs,           \* em.subs
    created,        \* Subscribe was called for the subscriber
    hist,           \* Subscribe was called with since != nil
    since,          \* *since
    hiAtSub,        \* highest persisted Seq when Subscribe was called
    filter,         \* Subscriber.filter
    outgoing,       \* Subscriber.outgoing: the buffered events
    outgoingClosed, \* Subscriber.outgoing is closed
    done,           \* Subscriber.done is closed
    cleanedUp,      \* Subscriber.cleanedUp
    lk,             \* Subscriber.lk: "free", or held by "evict" / "cleanup"
    once,           \* sync.OnceFunc of cleanup: "new", body at "lock"/"rm"/"close", "done"
    bodyRuns,       \* number of times the cleanup body was entered
    cancels,        \* number of calls of the returned cancel function
    evStart,        \* eviction tasks spawned, not yet holding Subscriber.lk
    evUnlocked,     \* eviction tasks that released Subscriber.lk, about to call cleanup
    enqueuedCounter,  \* Subscriber.enqueuedCounter
    broadcastCounter, \* Subscriber.broadcastCounter
    ctxDone,        \* the ctx passed to Subscribe is cancelled
    pc,             \* Join coordinator position
    lastSeq,        \* coordinator: lastSeq
    cursor,         \* coordinator: position of the running Playback
    first,          \* coordinator: first
    liveEvt,        \* coordinator: evt of the running iteration of the live loop
    out,            \* events received by the consumer of the returned channel
    outClosed,      \* the merged channel out is closed
    subsLk,         \* em.subsLk: "free", or held by the running "broadcast"
    bcEvt,          \* broadcastEvent: evt
    bcIdx,          \* broadcastEvent: index in em.subs of the next subscriber (0: not in the loop)
    bcFrom,         \* broadcastEvent: called inside "persist" (a Submit waits) or by the "flush" task
    panic,          \* "none", or the runtime panic that ended the process
    seqCall         \* the last call of sequenceForEvent: its argument and result

pvars == <<log, nextSeq, pending, shutdown, batched, submits, lastSubmit>>
svars == <<subs, created, hist, since, hiAtSub, filter, outgoing, outgoingClosed,
           done, cleanedUp, lk, once, bodyRuns, cancels, evStart, evUnlocked,
           enqueuedCounter, broadcastCounter, ctxDone>>
jvars == <<pc, lastSeq, cursor, first, liveEvt, out, outClosed>>
bvars == <<subsLk, bcEvt, bcIdx, bcFrom>>
vars == <<pvars, svars, jvars, bvars, panic, seqCall>>

\* ----------------------------------------------------------------- helpers
Range(q) == {q[i] : i \in 1..Len(q)}
\* Position of x in sequence q (0 when absent).
IndexOf(q, x) == IF \E i \in 1..Len(q) : q[i] = x
                 THEN CHOOSE i \in 1..Len(q) : q[i] = x /\ \A j \in 1..(i-1) : q[j] # x
                 ELSE 0
\* The process is running: a runtime panic in any goroutine ends it.
Alive == panic = "none"

\* EventManager.rmSubscriber: swap with the last element, then truncate.
rmSubscriber(list, s) ==
    LET i == IndexOf(list, s)
        n == Len(list)
    IN IF i = 0 THEN list
       ELSE SubSeq([list EXCEPT ![i] = list[n]], 1, n - 1)

\* EventManager.addSubscriber: append.
addSubscriber(list, s) == Append(list, s)

Init ==
    /\ log = <<>> /\ nextSeq = 1 /\ pending = <<>> /\ shutdown = FALSE /\ batched = FALSE
    /\ submits = 0 /\ lastSubmit = [persisted |-> FALSE, ret |-> "none", shut |-> FALSE]
    /\ subs = <<>>
    /\ created = [s \in Subs |-> FALSE]
    /\ hist = [s \in Subs |-> FALSE]
    /\ since = [s \in Subs |-> 0]
    /\ hiAtSub = [s \in Subs |-> 0]
    /\ filter = [s \in Subs |-> "all"]
    /\ outgoing = [s \in Subs |-> <<>>]
    /\ outgoingClosed = [s \in Subs |-> FALSE]
    /\ done = [s \in Subs |-> FALSE]
    /\ cleanedUp = [s \in Subs |-> FALSE]
    /\ lk = [s \in Subs |-> "free"]
    /\ once = [s \in Subs |-> "new"]
    /\ bodyRuns = [s \in Subs |-> 0]
    /\ cancels = [s \in Subs |-> 0]
    /\ evStart = [s \in Subs |-> 0]
    /\ evUnlocked = [s \in Subs |-> 0]
    /\ enqueuedCounter = [s \in Subs |-> 0]
    /\ broadcastCounter = [s \in Subs |-> 0]
    /\ ctxDone = [s \in Subs |-> FALSE]
    /\ pc = [s \in Subs |-> "none"]
    /\ lastSeq = [s \in Subs |-> 0]
    /\ cursor = [s \in Subs |-> 0]
    /\ first = [s \in Subs |-> NilEvt]
    /\ liveEvt = [s \in Subs |-> NilEvt]
    /\ subsLk = "free" /\ bcEvt = NilEvt /\ bcIdx = 0 /\ bcFrom = "none"
    /\ out = [s \in Subs |-> <<>>]
    /\ outClosed = [s \in Subs |-> FALSE]
    /\ panic = "none"
    /\ seqCall = [called |-> FALSE, arg |-> NilEvt, ret |-> -1]

\* ---------------------------------------------------------------- broadcast
\* The outcomes of the select of broadcastEvent for subscriber s and event e:
\* a send on a closed channel can proceed (it panics), as can a receive on a
\* closed done; one of the cases that can proceed is chosen; default otherwise.
SelectCases(s, e) ==
    IF ~FilterAccepts(filter[s], e) THEN {"skip"}
    ELSE LET sendReady == outgoingClosed[s] \/ Len(outgoing[s]) < BufferSize
         IN IF ~sendReady /\ ~done[s] THEN {"default"}
            ELSE (IF sendReady
                  THEN {IF outgoingClosed[s] THEN "panic" ELSE "send"} ELSE {})
                 \cup (IF done[s] THEN {"done"} ELSE {})

\* The outcomes of the select after which s.broadcastCounter.Inc() runs: the
\* statement follows the select, so every outcome but a panic reaches it.
BroadcastCounted == {"send", "done", "default"}

\* EventManager.broadcastEvent(e) is called (inside Persist, or by the flush
\* task): the persistence invokes its callback for one event at a time.
broadcastEvent(e, from) ==
    /\ bcFrom = "none"
    /\ bcEvt' = e
    /\ bcFrom' = from
    /\ UNCHANGED <<subsLk, bcIdx>>

\* em.subsLk.Lock() of broadcastEvent returns, and the loop over em.subs is to
\* start.
BroadcastLock ==
    /\ Alive
    /\ bcFrom # "none" /\ bcIdx = 0
    /\ subsLk = "free"
    /\ subsLk' = "broadcast"
    /\ bcIdx' = 1
    /\ UNCHANGED <<pvars, svars, jvars, bcEvt, bcFrom, panic, seqCall>>

\* One iteration of the loop of broadcastEvent, under em.subsLk: the filter,
\* enqueuedCounter, the non-blocking select (a full queue spawns an eviction
\* task) and broadcastCounter for the subscriber em.subs[bcIdx].  Goroutines
\* that do not take em.subsLk run between two iterations.
BroadcastStep ==
    /\ Alive
    /\ subsLk = "broadcast"
    /\ bcIdx <= Len(subs)
    /\ LET s == subs[bcIdx] IN
       \E o \in SelectCases(s, bcEvt) :
          /\ outgoing' = IF o = "send"
                         THEN [outgoing EXCEPT ![s] = Append(outgoing[s], bcEvt)]
                         ELSE outgoing
          /\ evStart' = IF o = "default"
                        THEN [evStart EXCEPT ![s] = evStart[s] + 1]
                        ELSE evStart
          /\ enqueuedCounter' = IF o # "skip"
                                THEN [enqueuedCounter EXCEPT ![s] = enqueuedCounter[s] + 1]
                                ELSE enqueuedCounter
          /\ broadcastCounter' = IF o \in BroadcastCounted
                                 THEN [broadcastCounter EXCEPT ![s] = broadcastCounter[s] + 1]
                                 ELSE broadcastCounter
          /\ panic' = IF o = "panic" THEN "send on closed channel" ELSE panic
          /\ bcIdx' = IF o = "panic" THEN bcIdx ELSE bcIdx + 1
    /\ UNCHANGED <<pvars, subs, created, ctxDone, hist, since, hiAtSub, filter,
                   outgoingClosed, done, cleanedUp, lk, once, bodyRuns, cancels,
                   evUnlocked, jvars, subsLk, bcEvt, bcFrom, seqCall>>

\* ------------------------------------------------------------- persistence
\* Playback: the first recorded event above cursor c, if any.
HasNext(c) == \E i \in 1..Len(log) : log[i].seq > c
NextInLog(c) == log[CHOOSE i \in 1..Len(log) :
                      log[i].seq > c /\ \A j \in 1..(i-1) : log[j].seq <= c]

\* Persist of the contract: fails after Shutdown, and may fail at any time.
PersistSucceeds(ok) == ok /\ ~shutdown

\* The event as recorded: data-carrying variants get the next Seq.
Stamped(k) == Evt(k, IF k \in SeqKinds THEN nextSeq ELSE -1)

\* Persist(ctx, evt): on success the event is recorded, and the broadcast
\* callback runs either before Persist returns (sync) or later, from the
\* persistence's own flush task, in append order.
Persist(k, ok, sync) ==
    IF ~PersistSucceeds(ok)
    THEN UNCHANGED <<log, nextSeq, pending, batched, bvars>>
    ELSE /\ log' = IF k \in SeqKinds THEN Append(log, Stamped(k)) ELSE log
         /\ nextSeq' = IF k \in SeqKinds THEN nextSeq + 1 ELSE nextSeq
         /\ IF sync
            THEN /\ broadcastEvent(Stamped(k), "persist")
                 /\ UNCHANGED <<pending, batched>>
            ELSE /\ pending' = Append(pending, Stamped(k))
                 /\ batched' = TRUE
                 /\ UNCHANGED bvars

\* The flush task of the persistence invokes the callback for the oldest
\* appended event that was not broadcast yet.
Flush ==
    /\ Alive
    /\ pending # <<>>
    /\ broadcastEvent(Head(pending), "flush")
    /\ pending' = Tail(pending)
    /\ UNCHANGED <<log, nextSeq, shutdown, batched, submits, lastSubmit, svars, jvars,
                   panic, seqCall>>

\* Persistence Shutdown, to which EventManager.Shutdown delegates.
Shutdown ==
    /\ Alive
    /\ ~shutdown
    /\ shutdown' = TRUE
    /\ UNCHANGED <<log, nextSeq, pending, batched, submits, lastSubmit, svars, seqCall, bvars, jvars,
                   panic>>

\* EventManager.TakeDownRepo delegates to the persistence, which removes the
\* recorded events of the account: here the account owns the event of Seq n.
TakeDownRepo(n) ==
    /\ Alive
    /\ ~shutdown
    /\ \E i \in 1..Len(log) : log[i].seq = n
    /\ LET Kept(e) == e.seq # n IN log' = SelectSeq(log, Kept)
    /\ UNCHANGED <<nextSeq, pending, shutdown, batched, submits, lastSubmit, svars,
                   jvars, bvars, panic, seqCall>>

\* --------------------------------------------------------- Submit / AddEvent
\* persistAndSendEvent: Persist is called; its error is logged and dropped.
\* The value is what the caller learns of the error.
persistAndSendEventSurfaces(persistErr) == IF persistErr THEN "err" ELSE "nil"
persistAndSendEvent(persistErr) == "nil"

\* AddEvent(ctx, ev) is called (the n-th call at most, by a producer whose
\* previous call has returned): persistAndSendEvent calls Persist.  When the
\* broadcast runs inside Persist the call returns after it (BroadcastEnd);
\* otherwise AddEvent returns nil at once.
AddEventUpTo(k, ok, sync, n) ==
    /\ Alive
    /\ submits < n
    /\ bcFrom # "persist"
    /\ sync => pending = <<>>
    /\ ~PersistSucceeds(ok) => sync
    /\ submits' = submits + 1
    /\ Persist(k, ok, sync)
    /\ lastSubmit' = [persisted |-> PersistSucceeds(ok),
                      ret |-> IF PersistSucceeds(ok) /\ sync
                              THEN "none"
                              ELSE persistAndSendEvent(~PersistSucceeds(ok)),
                      shut |-> shutdown]
    /\ UNCHANGED <<shutdown, svars, jvars, panic, seqCall>>

\* The loop of broadcastEvent has ended: the deferred em.subsLk.Unlock() runs,
\* and a broadcast called inside Persist lets Persist, persistAndSendEvent and
\* AddEvent return.
BroadcastEnd ==
    /\ Alive
    /\ subsLk = "broadcast"
    /\ bcIdx > Len(subs)
    /\ subsLk' = "free" /\ bcEvt' = NilEvt /\ bcIdx' = 0 /\ bcFrom' = "none"
    /\ lastSubmit' = IF bcFrom = "persist"
                     THEN [lastSubmit EXCEPT !.ret = persistAndSendEvent(FALSE)]
                     ELSE lastSubmit
    /\ UNCHANGED <<log, nextSeq, pending, shutdown, batched, submits, svars, jvars,
                   panic, seqCall>>

\* The producers of the model make MaxSubmits calls at most.
AddEvent(k, ok, sync) == AddEventUpTo(k, ok, sync, MaxSubmits)

\* ------------------------------------------------------------------ cleanup
\* sync.OnceFunc: whether a call enters the wrapped function.
OnceFuncReenters(st) == st \in {"new", "done"}
OnceFuncEnters(st) == st = "new"

\* A call of sub.cleanup: the first call starts the body, the others do nothing.
CallCleanup(s) ==
    /\ once' = [once EXCEPT ![s] = IF OnceFuncEnters(once[s]) THEN "lock" ELSE once[s]]
    /\ bodyRuns' = [bodyRuns EXCEPT ![s] =
                      IF OnceFuncEnters(once[s]) THEN bodyRuns[s] + 1 ELSE bodyRuns[s]]

\* The caller of Subscribe calls the returned cancel function (its n-th call at most).
Cancel(s, n) ==
    /\ Alive
    /\ created[s]
    /\ cancels[s] < n
    /\ cancels' = [cancels EXCEPT ![s] = cancels[s] + 1]
    /\ CallCleanup(s)
    /\ UNCHANGED <<pvars, subs, created, seqCall, bvars, enqueuedCounter, broadcastCounter, ctxDone, hist, since, hiAtSub, filter, outgoing,
                   outgoingClosed, done, cleanedUp, lk, evStart, evUnlocked, jvars, panic>>

\* sync.Mutex.Lock returns only when no goroutine holds the mutex.
MutexFree(holder) == holder = "free"

\* cleanup body: sub.lk.Lock(); close(done)
CleanupLock(s) ==
    /\ Alive
    /\ once[s] = "lock"
    /\ MutexFree(lk[s])
    /\ lk' = [lk EXCEPT ![s] = "cleanup"]
    /\ IF done[s]
       THEN panic' = "close of closed channel" /\ UNCHANGED done
       ELSE done' = [done EXCEPT ![s] = TRUE] /\ UNCHANGED panic
    /\ once' = [once EXCEPT ![s] = "rm"]
    /\ UNCHANGED <<pvars, subs, created, seqCall, bvars, enqueuedCounter, broadcastCounter, ctxDone, hist, since, hiAtSub, filter, outgoing,
                   outgoingClosed, cleanedUp, bodyRuns, cancels, evStart, evUnlocked, jvars>>

\* cleanup body: em.rmSubscriber(sub)
CleanupRm(s) ==
    /\ Alive
    /\ once[s] = "rm"
    /\ subsLk = "free"
    /\ subs' = rmSubscriber(subs, s)
    /\ once' = [once EXCEPT ![s] = "close"]
    /\ UNCHANGED <<pvars, created, seqCall, bvars, enqueuedCounter, broadcastCounter, ctxDone, hist, since, hiAtSub, filter, outgoing, outgoingClosed,
                   done, cleanedUp, lk, bodyRuns, cancels, evStart, evUnlocked, jvars, panic>>

\* cleanup body: close(sub.outgoing); sub.cleanedUp = true; sub.lk.Unlock()
CleanupClose(s) ==
    /\ Alive
    /\ once[s] = "close"
    /\ IF outgoingClosed[s]
       THEN panic' = "close of closed channel" /\ UNCHANGED outgoingClosed
       ELSE outgoingClosed' = [outgoingClosed EXCEPT ![s] = TRUE] /\ UNCHANGED panic
    /\ cleanedUp' = [cleanedUp EXCEPT ![s] = TRUE]
    /\ lk' = [lk EXCEPT ![s] = "free"]
    /\ once' = [once EXCEPT ![s] = "done"]
    /\ UNCHANGED <<pvars, subs, created, seqCall, bvars, enqueuedCounter, broadcastCounter, ctxDone, hist, since, hiAtSub, filter, outgoing, done,
                   bodyRuns, cancels, evStart, evUnlocked, jvars>>

\* ----------------------------------------------------------- eviction task
\* torem.lk.Lock(); if torem.cleanedUp, the send is skipped and the lock released.
EvictLock(s) ==
    /\ Alive
    /\ evStart[s] > 0
    /\ MutexFree(lk[s])
    /\ evStart' = [evStart EXCEPT ![s] = evStart[s] - 1]
    /\ IF cleanedUp[s]
       THEN evUnlocked' = [evUnlocked EXCEPT ![s] = evUnlocked[s] + 1] /\ UNCHANGED lk
       ELSE lk' = [lk EXCEPT ![s] = "evict"] /\ UNCHANGED evUnlocked
    /\ UNCHANGED <<pvars, subs, created, seqCall, bvars, enqueuedCounter, broadcastCounter, ctxDone, hist, since, hiAtSub, filter, outgoing,
                   outgoingClosed, done, cleanedUp, once, bodyRuns, cancels, jvars, panic>>

\* The ConsumerTooSlow frame is accepted by the queue; torem.lk.Unlock().
EvictSend(s) ==
    /\ Alive
    /\ lk[s] = "evict"
    /\ outgoingClosed[s] \/ Len(outgoing[s]) < BufferSize
    /\ IF outgoingClosed[s]
       THEN panic' = "send on closed channel" /\ UNCHANGED outgoing
       ELSE outgoing' = [outgoing EXCEPT ![s] = Append(outgoing[s], ConsumerTooSlow)]
            /\ UNCHANGED panic
    /\ lk' = [lk EXCEPT ![s] = "free"]
    /\ evUnlocked' = [evUnlocked EXCEPT ![s] = evUnlocked[s] + 1]
    /\ UNCHANGED <<pvars, subs, created, seqCall, bvars, enqueuedCounter, broadcastCounter, ctxDone, hist, since, hiAtSub, filter, outgoingClosed,
                   done, cleanedUp, once, bodyRuns, cancels, evStart, jvars>>

\* The queue stayed full for five seconds: time.After fires; torem.lk.Unlock().
EvictTimeout(s) ==
    /\ Alive
    /\ lk[s] = "evict"
    /\ ~outgoingClosed[s] /\ Len(outgoing[s]) >= BufferSize
    /\ lk' = [lk EXCEPT ![s] = "free"]
    /\ evUnlocked' = [evUnlocked EXCEPT ![s] = evUnlocked[s] + 1]
    /\ UNCHANGED <<pvars, subs, created, seqCall, bvars, enqueuedCounter, broadcastCounter, ctxDone, hist, since, hiAtSub, filter, outgoing,
                   outgoingClosed, done, cleanedUp, once, bodyRuns, cancels, evStart,
                   jvars, panic>>

\* torem.cleanup()
EvictCleanup(s) ==
    /\ Alive
    /\ evUnlocked[s] > 0
    /\ evUnlocked' = [evUnlocked EXCEPT ![s] = evUnlocked[s] - 1]
    /\ CallCleanup(s)
    /\ UNCHANGED <<pvars, subs, created, seqCall, bvars, enqueuedCounter, broadcastCounter, ctxDone, hist, since, hiAtSub, filter, outgoing,
                   outgoingClosed, done, cleanedUp, lk, cancels, evStart, jvars, panic>>

\* ---------------------------------------------------------------- Subscribe
\* Subscribe(ctx, ident, filter, nil): the subscriber joins the live set at once
\* and the returned channel is sub.outgoing.
SubscribeLive(s, f) ==
    /\ Alive
    /\ ~created[s]
    /\ subsLk = "free"
    /\ created' = [created EXCEPT ![s] = TRUE]
    /\ filter' = [filter EXCEPT ![s] = f]
    /\ subs' = addSubscriber(subs, s)
    /\ UNCHANGED <<pvars, hist, since, hiAtSub, outgoing, outgoingClosed, done, cleanedUp, lk,
                   once, bodyRuns, cancels, evStart, evUnlocked, enqueuedCounter,
                   broadcastCounter, ctxDone, seqCall, bvars, jvars, panic>>

\* Subscribe(ctx, ident, filter, &sn): the coordinator goroutine is started and
\* the returned channel is the merged channel out.
SubscribeSince(s, f, sn) ==
    /\ Alive
    /\ ~created[s]
    /\ created' = [created EXCEPT ![s] = TRUE]
    /\ filter' = [filter EXCEPT ![s] = f]
    /\ hiAtSub' = [hiAtSub EXCEPT ![s] = nextSeq - 1]
    /\ hist' = [hist EXCEPT ![s] = TRUE]
    /\ since' = [since EXCEPT ![s] = sn]
    /\ pc' = [pc EXCEPT ![s] = "cold"]
    /\ lastSeq' = [lastSeq EXCEPT ![s] = sn]
    /\ cursor' = [cursor EXCEPT ![s] = sn]
    /\ UNCHANGED <<pvars, subs, outgoing, outgoingClosed, done, cleanedUp, lk, once,
                   bodyRuns, cancels, evStart, evUnlocked, enqueuedCounter, broadcastCounter,
                   ctxDone, seqCall, bvars, first, liveEvt, out, outClosed, panic>>

\* The consumer of a live subscriber receives from the returned channel.
Consume(s) ==
    /\ Alive
    /\ created[s] /\ ~hist[s]
    /\ outgoing[s] # <<>>
    /\ out' = [out EXCEPT ![s] = Append(out[s], Head(outgoing[s]))]
    /\ outgoing' = [outgoing EXCEPT ![s] = Tail(outgoing[s])]
    /\ UNCHANGED <<pvars, subs, created, seqCall, bvars, enqueuedCounter, broadcastCounter, ctxDone, hist, since, hiAtSub, filter, outgoingClosed,
                   done, cleanedUp, lk, once, bodyRuns, cancels, evStart, evUnlocked,
                   pc, lastSeq, cursor, first, liveEvt, outClosed, panic>>

\* --------------------------------------------------------- Join coordinator
\* The consumer of out receives promptly: a send on out can always proceed, and
\* out[s] records what was sent.  A select with done closed may take either case.

\* Phase 1, one call of the visitor of the first Playback.
ColdVisit(s) ==
    /\ Alive
    /\ pc[s] = "cold"
    /\ HasNext(cursor[s])
    /\ LET e == NextInLog(cursor[s]) IN
       \/ /\ done[s]
          /\ pc' = [pc EXCEPT ![s] = "exited"]
          /\ outClosed' = [outClosed EXCEPT ![s] = TRUE]
          /\ UNCHANGED <<out, lastSeq, cursor>>
       \/ /\ out' = [out EXCEPT ![s] = Append(out[s], e)]
          /\ lastSeq' = [lastSeq EXCEPT ![s] =
                           IF sequenceForEvent(e) > 0 THEN sequenceForEvent(e)
                                                      ELSE lastSeq[s]]
          /\ cursor' = [cursor EXCEPT ![s] = e.seq]
          /\ UNCHANGED <<pc, outClosed>>
    /\ UNCHANGED <<pvars, svars, seqCall, bvars, first, liveEvt, panic>>

\* Phase 1 ends: the log is exhausted and Playback returns nil.
ColdEnd(s) ==
    /\ Alive
    /\ pc[s] = "cold"
    /\ ~HasNext(cursor[s])
    /\ pc' = [pc EXCEPT ![s] = "register"]
    /\ UNCHANGED <<pvars, svars, seqCall, bvars, lastSeq, cursor, first, liveEvt, out, outClosed, panic>>

\* Phase 2: em.addSubscriber(sub).
Register(s) ==
    /\ Alive
    /\ pc[s] = "register"
    /\ subsLk = "free"
    /\ subs' = addSubscriber(subs, s)
    /\ pc' = [pc EXCEPT ![s] = "first"]
    /\ UNCHANGED <<pvars, created, seqCall, bvars, enqueuedCounter, broadcastCounter, ctxDone, hist, since, hiAtSub, filter, outgoing, outgoingClosed,
                   done, cleanedUp, lk, once, bodyRuns, cancels, evStart, evUnlocked,
                   lastSeq, cursor, first, liveEvt, out, outClosed, panic>>

\* first := <-sub.outgoing (nil when the queue is closed and empty).
ReadFirst(s) ==
    /\ Alive
    /\ pc[s] = "first"
    /\ outgoing[s] # <<>> \/ outgoingClosed[s]
    /\ first' = [first EXCEPT ![s] =
                   IF outgoing[s] # <<>> THEN Head(outgoing[s]) ELSE NilEvt]
    /\ outgoing' = [outgoing EXCEPT ![s] =
                      IF outgoing[s] # <<>> THEN Tail(outgoing[s]) ELSE <<>>]
    /\ pc' = [pc EXCEPT ![s] = "hot"]
    /\ cursor' = [cursor EXCEPT ![s] = lastSeq[s]]
    /\ UNCHANGED <<pvars, subs, created, seqCall, bvars, enqueuedCounter, broadcastCounter, ctxDone, hist, since, hiAtSub, filter, outgoingClosed,
                   done, cleanedUp, lk, once, bodyRuns, cancels, evStart, evUnlocked,
                   lastSeq, liveEvt, out, outClosed, panic>>

\* The comparison of the visitor of the second Playback.
CaughtUp(e, f) == sequenceForEvent(e) > sequenceForEvent(f)

\* Phase 3, one call of the visitor of the second Playback.
HotVisit(s) ==
    /\ Alive
    /\ pc[s] = "hot"
    /\ HasNext(cursor[s])
    /\ LET e == NextInLog(cursor[s]) IN
       IF CaughtUp(e, first[s])
       THEN /\ pc' = [pc EXCEPT ![s] = "live"]
            /\ UNCHANGED <<out, cursor, outClosed, subs>>
       ELSE \/ /\ done[s]
               /\ pc' = [pc EXCEPT ![s] = "hotexit"]
               /\ outClosed' = [outClosed EXCEPT ![s] = TRUE]
               /\ UNCHANGED <<out, cursor, subs>>
            \/ /\ out' = [out EXCEPT ![s] = Append(out[s], e)]
               /\ cursor' = [cursor EXCEPT ![s] = e.seq]
               /\ UNCHANGED <<pc, outClosed, subs>>
    /\ UNCHANGED <<pvars, created, seqCall, bvars, enqueuedCounter, broadcastCounter, ctxDone, hist, since, hiAtSub, filter, outgoing, outgoingClosed,
                   done, cleanedUp, lk, once, bodyRuns, cancels, evStart, evUnlocked,
                   lastSeq, first, liveEvt, panic>>

\* Phase 3 ends with the log exhausted.
HotEnd(s) ==
    /\ Alive
    /\ pc[s] = "hot"
    /\ ~HasNext(cursor[s])
    /\ pc' = [pc EXCEPT ![s] = "live"]
    /\ UNCHANGED <<pvars, svars, seqCall, bvars, lastSeq, cursor, first, liveEvt, out, outClosed, panic>>

\* Playback returns an error of the persistence layer (not a sentinel):
\* close(out); in phase 3 em.rmSubscriber(sub) follows (ExitRm).
PlaybackError(s) ==
    /\ Alive
    /\ pc[s] \in {"cold", "hot"}
    /\ outClosed' = [outClosed EXCEPT ![s] = TRUE]
    /\ pc' = [pc EXCEPT ![s] = IF pc[s] = "hot" THEN "hotexit" ELSE "exited"]
    /\ UNCHANGED <<pvars, svars, seqCall, bvars, lastSeq, cursor, first, liveEvt, out, panic>>

\* Phase 4, the range over sub.outgoing receives the next event.
LiveRecv(s) ==
    /\ Alive
    /\ pc[s] = "live"
    /\ outgoing[s] # <<>>
    /\ liveEvt' = [liveEvt EXCEPT ![s] = Head(outgoing[s])]
    /\ outgoing' = [outgoing EXCEPT ![s] = Tail(outgoing[s])]
    /\ pc' = [pc EXCEPT ![s] = "select"]
    /\ UNCHANGED <<pvars, subs, created, seqCall, bvars, enqueuedCounter, broadcastCounter,
                   ctxDone, hist, since, hiAtSub, filter, outgoingClosed, done,
                   cleanedUp, lk, once, bodyRuns, cancels, evStart, evUnlocked,
                   lastSeq, cursor, first, out, outClosed, panic>>

\* Phase 4, the select of the loop body: the event is sent on out, or done is
\* observed and em.rmSubscriber(sub) follows (ExitRm).
LiveFwd(s) ==
    /\ Alive
    /\ pc[s] = "select"
    /\ \/ /\ out' = [out EXCEPT ![s] = Append(out[s], liveEvt[s])]
          /\ pc' = [pc EXCEPT ![s] = "live"]
       \/ /\ done[s]
          /\ pc' = [pc EXCEPT ![s] = "liveexit"]
          /\ UNCHANGED out
    /\ UNCHANGED <<pvars, svars, seqCall, bvars, lastSeq, cursor, first, liveEvt, outClosed,
                   panic>>

\* em.rmSubscriber(sub) of an exit path of the coordinator (lines 251, 261),
\* after which the goroutine returns.
ExitRm(s) ==
    /\ Alive
    /\ pc[s] \in {"hotexit", "liveexit"}
    /\ subsLk = "free"
    /\ subs' = rmSubscriber(subs, s)
    /\ pc' = [pc EXCEPT ![s] = "exited"]
    /\ UNCHANGED <<pvars, created, seqCall, bvars, enqueuedCounter, broadcastCounter,
                   ctxDone, hist, since, hiAtSub, filter, outgoing, outgoingClosed, done,
                   cleanedUp, lk, once, bodyRuns, cancels, evStart, evUnlocked,
                   lastSeq, cursor, first, liveEvt, out, outClosed, panic>>

\* Phase 4, the range ends: sub.outgoing is closed and drained.
LiveEnd(s) ==
    /\ Alive
    /\ pc[s] = "live"
    /\ outgoing[s] = <<>> /\ outgoingClosed[s]
    /\ pc' = [pc EXCEPT ![s] = "exited"]
    /\ UNCHANGED <<pvars, svars, seqCall, bvars, lastSeq, cursor, first, liveEvt, out, outClosed, panic>>

\* The caller of Subscribe cancels the ctx it passed.  The coordinator hands
\* ctx to the two Playback calls and uses it nowhere else.
CtxCancel(s) ==
    /\ Alive
    /\ created[s] /\ hist[s]
    /\ ~ctxDone[s]
    /\ ctxDone' = [ctxDone EXCEPT ![s] = TRUE]
    /\ UNCHANGED <<pvars, subs, created, seqCall, bvars, enqueuedCounter, broadcastCounter, hist, since,
                   hiAtSub, filter, outgoing, outgoingClosed, done, cleanedUp, lk, once,
                   bodyRuns, cancels, evStart, evUnlocked, jvars, panic>>

\* A running Playback whose ctx is cancelled returns the ctx error.
PlaybackCancelled(s) ==
    /\ ctxDone[s]
    /\ PlaybackError(s)

\* A call sequenceForEvent(e).
CallSequenceForEvent(e) ==
    /\ seqCall' = [called |-> TRUE, arg |-> e, ret |-> sequenceForEvent(e)]
    /\ UNCHANGED <<pvars, svars, jvars, bvars, panic>>

\* ------------------------------------------------------------ specification
\* The steps of the goroutines the broker starts and of the persistence callback.
TaskStep(s) ==
    \/ CleanupLock(s)
    \/ CleanupRm(s)
    \/ CleanupClose(s)
    \/ EvictLock(s)
    \/ EvictSend(s)
    \/ EvictTimeout(s)
    \/ EvictCleanup(s)

\* The goroutine running broadcastEvent.
BroadcastRun ==
    \/ BroadcastLock
    \/ BroadcastStep
    \/ BroadcastEnd

JoinStep(s) ==
    \/ ColdVisit(s)
    \/ ColdEnd(s)
    \/ Register(s)
    \/ ReadFirst(s)
    \/ HotVisit(s)
    \/ HotEnd(s)
    \/ PlaybackError(s)
    \/ LiveRecv(s)
    \/ LiveFwd(s)
    \/ LiveEnd(s)
    \/ ExitRm(s)

\* One historical subscriber beside one live subscriber, producers of commits
\* and label batches whose broadcast runs inside Persist, one cancel call per
\* subscriber.
Next ==
    \/ \E k \in {"RepoCommit", "LabelLabels"} : AddEvent(k, TRUE, TRUE)
    \/ BroadcastRun
    \/ SubscribeLive(1, "all")
    \/ \E f \in Filters, sn \in 0..MaxSince : SubscribeSince(2, f, sn)
    \/ \E s \in Subs : Consume(s)
    \/ \E s \in Subs : Cancel(s, 1)
    \/ \E s \in Subs : TaskStep(s)
    \/ \E s \in Subs : JoinStep(s)

Spec == Init /\ [][Next]_vars

\* Live subscribers only: producers of every submitted variant whose Persist
\* may fail, broadcasts before Persist returns or from the flush task, Shutdown.
NextSubmit ==
    \/ \E k \in SubmitKinds, ok \in BOOLEAN, sync \in BOOLEAN : AddEvent(k, ok, sync)
    \/ Flush
    \/ BroadcastRun
    \/ Shutdown
    \/ \E s \in Subs, f \in Filters : SubscribeLive(s, f)
    \/ \E s \in Subs : Consume(s)
    \/ \E s \in Subs : TaskStep(s)

SpecSubmit == Init /\ [][NextSubmit]_vars

\* Repeated and concurrent cancel calls on a historical subscriber, whose
\* coordinator drains its queue, beside eviction tasks and one cancel call on
\* a live subscriber whose consumer is stalled.
NextCleanup ==
    \/ AddEvent("RepoCommit", TRUE, TRUE)
    \/ BroadcastRun
    \/ SubscribeLive(1, "all")
    \/ SubscribeSince(2, "all", 0)
    \/ Cancel(1, 1)
    \/ Cancel(2, MaxCancels)
    \/ \E s \in Subs : TaskStep(s)
    \/ \E s \in Subs : JoinStep(s)

SpecCleanup == Init /\ [][NextCleanup]_vars

\* The goroutines of the broker are scheduled: a broadcast, an eviction task, a
\* cleanup body or a coordinator that can take a step eventually takes one.  Callers
\* (producers, consumers, cancel) are under no obligation.
NextEvict ==
    \/ AddEvent("RepoCommit", TRUE, TRUE)
    \/ BroadcastRun
    \/ SubscribeLive(1, "all")
    \/ SubscribeSince(2, "all", 0)
    \/ \E s \in Subs : Consume(s)
    \/ Cancel(2, 1)
    \/ \E s \in Subs : TaskStep(s)
    \/ \E s \in Subs : JoinStep(s)

FairSpec ==
    /\ Init /\ [][NextEvict]_vars
    /\ WF_vars(BroadcastRun)
    /\ \A s \in Subs : WF_vars(TaskStep(s)) /\ WF_vars(JoinStep(s))

\* One historical subscriber whose cursor may lie ahead of the log, producers
\* of MaxBroadcasts commits, label batches and info frames, take-downs, one
\* cancel call.
NextJoin ==
    \/ \E k \in SubmitKinds : AddEventUpTo(k, TRUE, TRUE, MaxBroadcasts)
    \/ BroadcastRun
    \/ \E n \in 1..MaxSubmits : TakeDownRepo(n)
    \/ \E sn \in 0..MaxCursor : SubscribeSince(2, "all", sn)
    \/ Cancel(2, 1)
    \/ TaskStep(2)
    \/ JoinStep(2)

SpecJoin == Init /\ [][NextJoin]_vars

\* One historical subscriber whose caller may call cancel and may cancel the
\* ctx, under the scheduling of FairSpec.
NextCancel ==
    \/ AddEvent("RepoCommit", TRUE, TRUE)
    \/ BroadcastRun
    \/ SubscribeSince(2, "all", 0)
    \/ Cancel(2, 1)
    \/ CtxCancel(2)
    \/ PlaybackCancelled(2)
    \/ TaskStep(2)
    \/ JoinStep(2)

FairJoin ==
    /\ Init /\ [][NextCancel]_vars
    /\ WF_vars(BroadcastRun)
    /\ WF_vars(TaskStep(2)) /\ WF_vars(JoinStep(2))

\* One live subscriber whose consumer may drain its queue at any time, beside
\* MaxBroadcasts submitted commits, eviction tasks and one cancel call.
NextDrop ==
    \/ AddEventUpTo("RepoCommit", TRUE, TRUE, MaxBroadcasts)
    \/ BroadcastRun
    \/ SubscribeLive(1, "all")
    \/ Consume(1)
    \/ Cancel(1, 1)
    \/ TaskStep(1)

SpecDrop == Init /\ [][NextDrop]_vars

\* The scheduling of FairSpec, with cancel calls on both subscribers: cleanup
\* bodies, eviction tasks, broadcasts and the coordinator contend for the
\* subscribers' mutexes and the list mutex.
NextContend ==
    \/ NextEvict
    \/ Cancel(1, 1)

FairContend ==
    /\ Init /\ [][NextContend]_vars
    /\ WF_vars(BroadcastRun)
    /\ \A s \in Subs : WF_vars(TaskStep(s)) /\ WF_vars(JoinStep(s))

\* The arguments of the sequence accessor: nil, the variants without a
\* sequence, and every data-carrying variant with a Seq of 1..MaxSeq.
AccessorArgs ==
    {NilEvt} \cup {Evt(k, -1) : k \in AllKinds \ SeqKinds}
             \cup {Evt(k, n) : k \in SeqKinds, n \in 1..MaxSeq}

NextAccessor == \E e \in AccessorArgs : CallSequenceForEvent(e)

SpecAccessor == Init /\ [][NextAccessor]_vars

\* ------------------------------------------------------------------ claims
\* Number of times event e occurs in sequence q.
Occurrences(q, e) == Cardinality({i \in 1..Len(q) : q[i] = e})

\* A historical subscriber with an accept-all filter and a cursor not above
\* the highest persisted sequence, with no cancel, no eviction and no failed
\* Playback so far, in a run where every broadcast ran before Persist returned.
JoinUndisturbed(s) ==
    /\ Alive /\ ~batched
    /\ hist[s] /\ filter[s] = "all" /\ since[s] <= hiAtSub[s]
    /\ once[s] = "new" /\ evStart[s] = 0 /\ evUnlocked[s] = 0 /\ lk[s] = "free"
    /\ pc[s] \notin {"hotexit", "liveexit", "exited"}

\* C1 (as claimed): on the channel of an undisturbed historical subscriber no
\* persisted event is delivered twice, and once the coordinator streams live
\* and has drained the live queue, every persisted event above the cursor has
\* been delivered exactly once.
C1_JoinExactlyOnce ==
    \A s \in Subs : JoinUndisturbed(s) =>
        /\ \A i \in 1..Len(log) : Occurrences(out[s], log[i]) <= 1
        /\ (pc[s] = "live" /\ outgoing[s] = <<>>) =>
               \A i \in 1..Len(log) :
                   log[i].seq > since[s] => Occurrences(out[s], log[i]) = 1

\* C2 (as claimed): on every returned channel the data-carrying events appear
\* in strictly increasing sequence order (persistence broadcasts and replays
\* in sequence order; here every broadcast ran before Persist returned).
C2_Ordering ==
    \A s \in Subs : (Alive /\ ~batched) =>
        \A i, j \in 1..Len(out[s]) :
            (i < j /\ out[s][i].kind \in SeqKinds /\ out[s][j].kind \in SeqKinds)
                => out[s][i].seq < out[s][j].seq

\* C3 (as claimed): every event delivered on a returned channel (the broker's
\* own ConsumerTooSlow frame aside) satisfies the subscriber's filter, and no
\* subscriber is listed twice, so one broadcast evaluates its filter once.
C3_FilterSoundness ==
    /\ \A s \in Subs : \A i \in 1..Len(out[s]) :
           out[s][i] # ConsumerTooSlow => FilterAccepts(filter[s], out[s][i])
    /\ \A i, j \in 1..Len(subs) : subs[i] = subs[j] => i = j

\* The step is the iteration of the broadcast loop for the listed subscriber s
\* (the event is bcEvt): the loop moves on, or panics in the send.
BroadcastVisits(s) ==
    /\ subsLk = "broadcast" /\ bcIdx <= Len(subs) /\ subs[bcIdx] = s
    /\ \/ bcIdx' = bcIdx + 1
       \/ panic' # panic /\ enqueuedCounter' # enqueuedCounter

\* The filter of s accepts e, its queue has room and its done is not raised.
Eligible(s, e) ==
    FilterAccepts(filter[s], e) /\ Len(outgoing[s]) < BufferSize /\ ~done[s]

\* C4 (as claimed): one broadcast of e appends e exactly once to the queue of
\* every listed subscriber whose filter accepts e, whose queue has room and
\* whose done is not raised, whatever the state of the other subscribers: the
\* iteration for such a subscriber appends e, and the loop never ends before
\* the iteration of such a subscriber.
C4_EvictionIsolation ==
    /\ [][\A s \in Subs : (BroadcastVisits(s) /\ Eligible(s, bcEvt))
              => outgoing'[s] = Append(outgoing[s], bcEvt)]_vars
    /\ []((subsLk = "broadcast" /\ ~Alive) =>
              \A i \in (bcIdx + 1)..Len(subs) : ~Eligible(subs[i], bcEvt))

\* C6 (as claimed): once a subscriber's cleanup has completed it is absent
\* from em.subs, and nothing more is enqueued on its outgoing queue.
C6_AbsentAfterCleanup ==
    \A s \in Subs : once[s] = "done" => s \notin Range(subs)

\* C7 (as claimed): no interleaving sends on a closed outgoing queue or closes
\* a channel twice.
C7_NoPanic == panic = "none"

\* Everything but the count of cancel calls.
exceptCancels == <<pvars, subs, created, seqCall, bvars, enqueuedCounter, broadcastCounter, ctxDone, hist, since, hiAtSub, filter, outgoing,
                   outgoingClosed, done, cleanedUp, lk, once, bodyRuns, evStart,
                   evUnlocked, jvars, panic>>

\* C5: whatever the number of cancel calls, beside eviction tasks, the cleanup
\* body is entered at most once, no channel is closed a second time, a
\* completed cleanup has closed done and the outgoing queue, and a further
\* call of cancel changes nothing.
C5_CleanupIdempotent ==
    [][\A s \in Subs :
          /\ bodyRuns'[s] <= 1
          /\ panic' # "close of closed channel"
          /\ once'[s] = "done" =>
                 (done'[s] /\ outgoingClosed'[s] /\ cleanedUp'[s] /\ bodyRuns'[s] = 1)
          /\ (cancels'[s] = cancels[s] + 1 /\ once[s] # "new") => UNCHANGED exceptCancels
          /\ (evUnlocked'[s] = evUnlocked[s] - 1 /\ once[s] # "new") =>
                 UNCHANGED <<once, bodyRuns, done, outgoingClosed, cleanedUp, subs>>]_vars

\* C5 witness: cancel was called at least twice on a subscriber whose cleanup
\* has completed, its body entered once.
C5_Witness ==
    \E s \in Subs : cancels[s] >= 2 /\ once[s] = "done" /\ bodyRuns[s] = 1
                    /\ done[s] /\ outgoingClosed[s]

\* C8 (as claimed): whenever a broadcast found a subscriber's queue full and
\* spawned the eviction task, the subscriber is eventually cleaned up.
C8_EvictionCompletes ==
    \A s \in Subs :
        (evStart[s] > 0) ~>
            (once[s] = "done" /\ s \notin Range(subs) /\ done[s] /\ outgoingClosed[s])

\* C9 (as claimed): after Shutdown every Submit returns a non-nil error and
\* leaves the delivered events unchanged.
C9_SubmitFailsAfterShutdown ==
    [][(shutdown /\ submits' = submits + 1) =>
          (lastSubmit'.ret = "err" /\ out' = out)]_vars

\* C9 (amended): after Shutdown every Submit's Persist fails: nothing is
\* recorded or broadcast, the delivered events and the queues are unchanged,
\* and AddEvent still returns nil.
C9_SubmitAfterShutdownDropped ==
    [][(shutdown /\ submits' = submits + 1) =>
          /\ ~lastSubmit'.persisted
          /\ lastSubmit'.ret = "nil"
          /\ UNCHANGED <<log, nextSeq, pending, subs, outgoing, out, evStart, panic, bvars>>]_vars

\* C9 witness: a Submit made after Shutdown has returned, with events already
\* delivered to a subscriber.
C9_Witness ==
    /\ shutdown /\ lastSubmit.shut /\ lastSubmit.ret = "nil"
    /\ \E s \in Subs : out[s] # <<>>

\* C10: AddEvent returns nil whatever Persist returned (at once when Persist
\* failed or only recorded the event, after the broadcast when Persist ran
\* it), and when Persist failed nothing is broadcast: the subscriber list and
\* every queue are unchanged.
C10_SubmitSwallowsFailure ==
    [][/\ lastSubmit'.ret \in {"none", "nil"}
       /\ (submits' = submits + 1 /\ bcFrom' # "persist") => lastSubmit'.ret = "nil"
       /\ (bcFrom = "persist" /\ bcFrom' = "none") => lastSubmit'.ret = "nil"
       /\ (submits' = submits + 1 /\ ~lastSubmit'.persisted) =>
              UNCHANGED <<log, nextSeq, pending, subs, outgoing, evStart, out, panic, bvars>>]_vars

\* C10 witness: Persist failed before any Shutdown while a subscriber with a
\* non-empty queue was listed, and AddEvent returned nil.
C10_Witness ==
    /\ ~shutdown /\ ~lastSubmit.persisted /\ lastSubmit.ret = "nil"
    /\ \E s \in Range(subs) : outgoing[s] # <<>>

\* C11 (as claimed): on the channel of a historical subscriber with cursor
\* since, whatever the cursor, every data-carrying event delivered has a
\* sequence above since.
C11_CursorLowerBound ==
    \A s \in Subs : hist[s] =>
        \A i \in 1..Len(out[s]) :
            out[s][i].kind \in SeqKinds => out[s][i].seq > since[s]

\* The coordinator goroutine is running, in one of its phases: it has not
\* returned (an exit path waiting for em.subsLk at 251 or 261 included).
InPhase(s) == pc[s] \in {"cold", "register", "first", "hot", "hotexit",
                         "live", "select", "liveexit"}

\* C12 (as claimed): when cancel was called while the coordinator of a
\* historical subscriber is in one of its phases, the coordinator eventually
\* has exited with the merged channel out closed and the subscriber not listed.
C12_CancelDuringJoin ==
    \A s \in Subs :
        (hist[s] /\ cancels[s] > 0 /\ InPhase(s)) ~>
            (pc[s] = "exited" /\ outClosed[s] /\ s \notin Range(subs))

\* C13 (as claimed): when the live queue of a historical subscriber was closed
\* by a slow-consumer eviction (no cancel was called) during hot replay or the
\* live drain, the merged channel out is eventually closed.
C13_EvictionDuringJoin ==
    \A s \in Subs :
        (hist[s] /\ cancels[s] = 0 /\ outgoingClosed[s] /\ pc[s] \in {"hot", "live", "select"}) ~>
            outClosed[s]

\* C14 (as claimed): when the ctx passed to a historical Subscribe is
\* cancelled, the coordinator eventually exits, and a subscriber it leaves
\* registered has had its cleanup called.
C14_ContextCancellation ==
    \A s \in Subs :
        (hist[s] /\ ctxDone[s]) ~>
            (pc[s] = "exited" /\ (s \in Range(subs) => once[s] # "new"))

\* The variants without a sequence: info and error frames.
NonSequenced(e) == e.kind \in {"RepoInfo", "LabelInfo", "Error"}

\* C15 (as claimed): with an info or error frame as first, the hot replay
\* ends only when the log is exhausted: every recorded event above lastSeq
\* has been forwarded when the coordinator starts streaming live.
C15_NonSequencedFirst ==
    [][\A s \in Subs :
          (pc[s] = "hot" /\ pc'[s] = "live" /\ NonSequenced(first[s]))
              => ~HasNext(cursor[s])]_vars

\* C16 (as claimed): when the live loop forwards an event, the event first
\* read in phase 2 has been delivered on out exactly once, whether it carries
\* a sequence or not.
C16_FirstDelivered ==
    [][\A s \in Subs :
          (hist[s] /\ pc[s] = "select" /\ first[s] # NilEvt /\ out'[s] # out[s])
              => Occurrences(out[s], first[s]) = 1]_vars

\* A broadcast found the queue of s full: its eviction task has not called
\* cleanup yet.
DropPending(s) == evStart[s] > 0 \/ lk[s] = "evict" \/ evUnlocked[s] > 0

\* C17 (as claimed): once a broadcast was not enqueued to a subscriber whose
\* queue was full, no later broadcast event is enqueued to it (the eviction
\* task's error frame aside), also when the consumer drains the queue first.
C17_NoDeliveryAfterDrop ==
    [][\A s \in Subs :
          (DropPending(s) /\ Len(outgoing'[s]) > Len(outgoing[s]))
              => outgoing'[s] = Append(outgoing[s], ConsumerTooSlow)]_vars

\* The step is an iteration of the broadcast loop that pushed its event onto
\* the queue of s.
Pushed(s) == BroadcastVisits(s) /\ outgoing'[s] = Append(outgoing[s], bcEvt)

\* The step is an iteration of the broadcast loop for the listed subscriber s
\* whose filter the event passes.
Matched(s) == BroadcastVisits(s) /\ FilterAccepts(filter[s], bcEvt)

\* C18 (as claimed): enqueuedCounter counts the broadcast events that passed
\* the subscriber's filter and broadcastCounter counts the events pushed onto
\* its outgoing queue: a broadcast that observed done or found the queue full
\* does not increment broadcastCounter.
C18_Counters ==
    [][\A s \in Subs :
          /\ enqueuedCounter'[s] = enqueuedCounter[s] + (IF Matched(s) THEN 1 ELSE 0)
          /\ broadcastCounter'[s] = broadcastCounter[s] + (IF Pushed(s) THEN 1 ELSE 0)]_vars

\* Everything pushed so far onto the queue of a live subscriber.
EverQueued(s) == out[s] \o outgoing[s]

\* C19 (as claimed): the queue of a subscriber receives at most one
\* ConsumerTooSlow frame over its life.
C19_SingleErrorFrame ==
    \A s \in Subs : ~hist[s] => Occurrences(EverQueued(s), ConsumerTooSlow) <= 1

\* The step runs under the list mutex em.subsLk: broadcastEvent taking the
\* mutex, an iteration of its loop or its return, addSubscriber (live
\* Subscribe or the coordinator's registration) or rmSubscriber (cleanup or
\* a coordinator exit), whether or not it changes the list.
UnderSubsLk ==
    \/ subsLk' # subsLk
    \/ \E s \in Subs : BroadcastVisits(s)
    \/ \E s \in Subs :
           \/ once[s] = "rm" /\ once'[s] = "close"
           \/ pc[s] = "register" /\ pc'[s] = "first"
           \/ pc[s] \in {"hotexit", "liveexit"} /\ pc'[s] = "exited"
           \/ ~created[s] /\ created'[s] /\ ~hist'[s]

\* The per-subscriber mutex is never taken or released under the list mutex,
\* and rmSubscriber is entered by cleanup while it holds the subscriber's mutex.
LockOrder ==
    /\ UnderSubsLk => lk' = lk
    /\ \A s \in Subs : (once[s] = "rm" /\ once'[s] = "close") => lk[s] = "cleanup"

\* C20 (as claimed): the mutexes are taken in one order (the subscriber's
\* before the list's), and every cleanup call that entered its body
\* eventually returns.
C20_DeadlockFreedom ==
    /\ [][LockOrder]_vars
    /\ \A s \in Subs : (once[s] \in {"lock", "rm", "close"}) ~> (once[s] = "done")

\* C21 (as claimed): sequenceForEvent returns the Seq of every data-carrying
\* variant (commit, handle, migrate, tombstone and label batch) and -1 for
\* the info and error variants and for nil.
C21_SequenceAccessor ==
    seqCall.called =>
        seqCall.ret = (IF seqCall.arg.kind \in SeqKinds THEN seqCall.arg.seq ELSE -1)

====
